---- MODULE Spec2Model ----
(***************************************************************************)
(* Falling-block game for the TTGO T-Display: the interrupt-to-loop event  *)
(* bridge (timer callback, button ISR, packet queue), the game loop and    *)
(* the game logic (phases, physics, block pool, collisions).               *)
(*                                                                         *)
(* Time is the value of esp_timer_get_time(), in microseconds.  A handler  *)
(* runs to completion at one reading of the clock.                         *)
(***************************************************************************)
EXTENDS Integers, Sequences, FiniteSets, TLC

(* ---- program constants (include/core.h) ---- *)
TARGET_FPS == 30
STARTING_BLOCKS == 3
MAX_BLOCKS == 15
PLAYER_WIDTH == 20
PLAYER_HEIGHT == 20
PLAYER_VELOCITY_MULT == 2
BLOCK_WIDTH == 15
BLOCK_HEIGHT == 10
DEATH_SCREEN_DELAY == 5000000
STARTING_VELOCITY == 25
MAX_VELOCITY == 100

(* enum GamePacketType {PACKET_TICK, PACKET_INPUT} *)
PACKET_TICK == 0
PACKET_INPUT == 1
(* enum GameStatePhase {PHASE_MENU, PHASE_DEATH, PHASE_GAME} *)
PHASE_MENU == 0
PHASE_DEATH == 1
PHASE_GAME == 2
(* enum GameStateDirection {DIR_LEFT, DIR_RIGHT, DIR_NONE} *)
DIR_LEFT == 0
DIR_RIGHT == 1
DIR_NONE == 2

(* ---- program constants (main) ---- *)
QUEUE_LENGTH == 10          \* xQueueCreate(10, sizeof(GamePacket))
DEBOUNCE_US == 500          \* current_time - last_press_time > 500
STARTUP_QUIET_US == 1000000 \* esp_timer_get_time() < 1e6
DEATH_INPUT_GUARD_US == 4500000 \* auto_advance_time - 4.5e6
SCORE_INCREMENT == 100      \* p->score += 100
SCORE_THRESHOLD == 200      \* p->score > 200
BLOCK_SCORE_STEP == 300     \* score_difference/300
VELOCITY_SCORE_STEP == 400  \* score_difference/400
PLAYER_BOTTOM_MARGIN == 5   \* p->y = display_height - PLAYER_HEIGHT - 5
GPIO_LEFT == 0              \* GPIO_NUM_0
GPIO_RIGHT == 35            \* GPIO_NUM_35

(* esp_timer_start_periodic(game_timer, 1.0e6/TARGET_FPS), in whole us *)
TICK_PERIOD_US == 1000000 \div TARGET_FPS

(* ---- bounds of the model ---- *)
(* The display of the graphics library (135 x 240 on the board), scaled    *)
(* down so that a block crosses the field within a few ticks.              *)
display_width == 60
display_height == 30
(* The clock stops at MaxTime, except to wait for a death screen's deadline. *)
MaxTime == 3000000
(* The largest number of packets the producers leave waiting in the main   *)
(* specification.                                                          *)
MaxBacklog == 1

NULL == -1
Pins == {GPIO_LEFT, GPIO_RIGHT}
BlockIdx == 0 .. (MAX_BLOCKS - 1)
LOW_LEVEL == "GPIO_INTR_LOW_LEVEL"
HIGH_LEVEL == "GPIO_INTR_HIGH_LEVEL"

VARIABLES
    state,            \* GameState state of start_game
    last_spawned,     \* static GameBlock* last_spawned of respawn_block (an index, or NULL)
    packet_queue,     \* QueueHandle_t packet_queue
    now,              \* esp_timer_get_time()
    last_time,        \* static int64_t last_time of game_tick_timer_callback
    last_press_time,  \* static int64_t last_press_time of gpio_button_isr_handler
    button_status,    \* static int button_status[2] of gpio_button_isr_handler
    intr_type,        \* the interrupt type set with gpio_set_intr_type, per pin
    frame,            \* int frame of start_game
    rand_values,      \* the values rand() % (display_width - BLOCK_WIDTH) takes in this run
    warned,           \* an "Unknown game state phase" warning was printed
    ev                \* what the last iteration of the game loop did

vars == <<state, last_spawned, packet_queue, now, last_time, last_press_time,
          button_status, intr_type, frame, rand_values, warned, ev>>

(* ------------------------------------------------------------------ *)
(* Game logic                                                           *)
(* ------------------------------------------------------------------ *)

(* The ceiling of vel * dtUs / 1000000 in exact arithmetic. *)
ExactCeil(vel, dtUs) ==
    LET q == dtUs \div 1000000
        r == dtUs % 1000000
    IN  vel * q + ((vel * r + 999999) \div 1000000)

(* The velocities up to 600 for which vel * (280.0/1000), evaluated in
   double precision as calc_velocity does, lies above the integer
   vel * 0.28: the quotient 280.0/1000 is the double next above 0.28
   (0.28 + 3/112589990684262400), and the product is rounded to a double
   above the integer (25 * (280.0/1000) is 7 + 2^-50).  For the other
   velocities up to 600, and for every velocity up to 600 with the other
   elapsed times the specifications produce (the multiples of 250 ms up to
   20 s and the multiples of 33333 us up to 2 s), the double product has
   the ceiling of the exact one. *)
RoundedUpAt280ms ==
    {25, 50, 75, 100, 150, 175, 200, 225, 275, 300, 325, 350, 375, 400, 425,
     450, 550, 575, 600}

(* ceil(vel * (dt/1000)), dt in ms as a double; dtUs is that dt in
   microseconds (handleTickPacket passes packet.data / 1.0e3). *)
calc_velocity(vel, dtUs) ==
    ExactCeil(vel, dtUs)
        + (IF dtUs = 280000 /\ vel \in RoundedUpAt280ms THEN 1 ELSE 0)

(* check_player_collision with rectangles that only touch not colliding. *)
check_player_collision_open(p, b) ==
    ~(  p.x >= b.x + BLOCK_WIDTH
     \/ p.x + PLAYER_WIDTH <= b.x
     \/ p.y >= b.y + BLOCK_HEIGHT
     \/ p.y + PLAYER_HEIGHT <= b.y)

check_player_collision(p, b) ==
    ~(  p.x > b.x + BLOCK_WIDTH
     \/ p.x + PLAYER_WIDTH < b.x
     \/ p.y > b.y + BLOCK_HEIGHT
     \/ p.y + PLAYER_HEIGHT < b.y)

initialise_blocks(blocks) ==
    [i \in BlockIdx |-> [blocks[i] EXCEPT !.enabled = FALSE,
                                          !.waiting_for_respawn = FALSE]]

(* enable_blocks without the test of enabled: it sets the flags of every
   block. *)
enable_blocks_overwrites(blocks, toBlockIndex) ==
    [i \in BlockIdx |->
        [blocks[i] EXCEPT !.enabled = (i < toBlockIndex),
                          !.waiting_for_respawn = (i < toBlockIndex)]]

enable_blocks(blocks, toBlockIndex) ==
    [i \in BlockIdx |->
        IF ~blocks[i].enabled
        THEN [blocks[i] EXCEPT !.enabled = (i < toBlockIndex),
                               !.waiting_for_respawn = (i < toBlockIndex)]
        ELSE blocks[i]]

(* initialise_game without the call of initialise_blocks. *)
initialise_game_keeps_blocks(s) ==
    [s EXCEPT !.player_direction = DIR_NONE,
              !.velocity = STARTING_VELOCITY,
              !.selection = 0,
              !.player = [x |-> (display_width \div 2) - (PLAYER_WIDTH \div 2),
                          y |-> display_height - PLAYER_HEIGHT - PLAYER_BOTTOM_MARGIN,
                          score |-> 0],
              !.blocks = enable_blocks(s.blocks, STARTING_BLOCKS)]

initialise_game(s) ==
    [s EXCEPT !.player_direction = DIR_NONE,
              !.velocity = STARTING_VELOCITY,
              !.selection = 0,
              !.player = [x |-> (display_width \div 2) - (PLAYER_WIDTH \div 2),
                          y |-> display_height - PLAYER_HEIGHT - PLAYER_BOTTOM_MARGIN,
                          score |-> 0],
              !.blocks = enable_blocks(initialise_blocks(s.blocks), STARTING_BLOCKS)]

(* respawn_allowed without the clearance test: the last-spawned block has
   to leave the field first. *)
respawn_allowed_after_pass(blocks, ls) ==
    \/ ls = NULL
    \/ ~blocks[ls].enabled
    \/ blocks[ls].waiting_for_respawn

(* respawn_allowed with a clearance of one block height. *)
respawn_allowed_close(blocks, ls) ==
    \/ ls = NULL
    \/ ~blocks[ls].enabled
    \/ blocks[ls].waiting_for_respawn
    \/ blocks[ls].y > BLOCK_HEIGHT

(* The test of respawn_block: may a block be placed at the top now? *)
respawn_allowed(blocks, ls) ==
    \/ ls = NULL
    \/ ~blocks[ls].enabled
    \/ blocks[ls].waiting_for_respawn
    \/ 2 * blocks[ls].y > 3 * BLOCK_HEIGHT      \* y > BLOCK_HEIGHT*1.5

(* respawn_block placing the block BLOCK_WIDTH further to the right, as
   rand() % display_width could. *)
respawn_block_full_width(blocks, ls, i, rx) ==
    IF ~blocks[i].enabled THEN [blocks |-> blocks, ls |-> ls]
    ELSE IF respawn_allowed(blocks, ls)
    THEN [blocks |-> [blocks EXCEPT ![i] = [@ EXCEPT !.y = BLOCK_HEIGHT * (-1),
                                                     !.x = rx + BLOCK_WIDTH,
                                                     !.waiting_for_respawn = FALSE]],
          ls |-> i]
    ELSE [blocks |-> blocks, ls |-> ls]

(* respawn_block(&blocks[i]); rx is the value of rand() % (display_width - BLOCK_WIDTH).
   Gives the blocks and the last_spawned pointer afterwards. *)
respawn_block(blocks, ls, i, rx) ==
    IF ~blocks[i].enabled THEN [blocks |-> blocks, ls |-> ls]
    ELSE IF respawn_allowed(blocks, ls)
    THEN [blocks |-> [blocks EXCEPT ![i] = [@ EXCEPT !.y = BLOCK_HEIGHT * (-1),
                                                     !.x = rx,
                                                     !.waiting_for_respawn = FALSE]],
          ls |-> i]
    ELSE [blocks |-> blocks, ls |-> ls]

(* The values of rand() % (display_width - BLOCK_WIDTH) the main
   specification draws: the left column, the centre, the right column. *)
RandXs == {0, (display_width - BLOCK_WIDTH) \div 2, display_width - BLOCK_WIDTH - 1}

(* move_blocks moving the disabled blocks too. *)
RECURSIVE move_blocks_all(_, _, _, _)
move_blocks_all(blocks, ls, i, d) ==
    IF i >= MAX_BLOCKS THEN {[blocks |-> blocks, ls |-> ls]}
    ELSE LET rs == IF blocks[i].enabled /\ blocks[i].waiting_for_respawn
                   THEN {respawn_block(blocks, ls, i, rx) : rx \in rand_values}
                   ELSE {[blocks |-> blocks, ls |-> ls]}
         IN  UNION {move_blocks_all([r.blocks EXCEPT ![i].y = @ + d], r.ls, i + 1, d) : r \in rs}

(* The "Move/respawn blocks" loop of tick, from index i on; d is
   calc_velocity(state->velocity, dt).  The set of outcomes [blocks, ls],
   one for every draw of rand() among rand_values. *)
RECURSIVE move_blocks(_, _, _, _)
move_blocks(blocks, ls, i, d) ==
    IF i >= MAX_BLOCKS THEN {[blocks |-> blocks, ls |-> ls]}
    ELSE IF blocks[i].enabled
    THEN LET rs == IF blocks[i].waiting_for_respawn
                   THEN {respawn_block(blocks, ls, i, rx) : rx \in rand_values}
                   ELSE {[blocks |-> blocks, ls |-> ls]}
         IN  UNION {move_blocks([r.blocks EXCEPT ![i].y = @ + d], r.ls, i + 1, d) : r \in rs}
    ELSE move_blocks(blocks, ls, i + 1, d)

(* check_block with the deadline left unarmed on a collision. *)
check_block_unarmed(s, i, t) ==
    LET b == s.blocks[i] IN
    IF b.enabled /\ ~b.waiting_for_respawn
    THEN IF check_player_collision(s.player, b)
         THEN [s EXCEPT !.phase = PHASE_DEATH]
         ELSE IF b.y > display_height
         THEN [s EXCEPT !.blocks[i].waiting_for_respawn = TRUE,
                        !.player.score = @ + SCORE_INCREMENT]
         ELSE s
    ELSE s

(* check_block without the test of waiting_for_respawn. *)
check_block_rescoring(s, i, t) ==
    LET b == s.blocks[i] IN
    IF b.enabled
    THEN IF check_player_collision(s.player, b)
         THEN [s EXCEPT !.phase = PHASE_DEATH,
                        !.auto_advance_time = t + DEATH_SCREEN_DELAY]
         ELSE IF b.y > display_height
         THEN [s EXCEPT !.blocks[i].waiting_for_respawn = TRUE,
                        !.player.score = @ + SCORE_INCREMENT]
         ELSE s
    ELSE s

(* check_block taking the colliding block off the field for a respawn. *)
check_block_hit_respawns(s, i, t) ==
    LET b == s.blocks[i] IN
    IF b.enabled /\ ~b.waiting_for_respawn
    THEN IF check_player_collision(s.player, b)
         THEN [s EXCEPT !.phase = PHASE_DEATH,
                        !.auto_advance_time = t + DEATH_SCREEN_DELAY,
                        !.blocks[i].waiting_for_respawn = TRUE]
         ELSE IF b.y > display_height
         THEN [s EXCEPT !.blocks[i].waiting_for_respawn = TRUE,
                        !.player.score = @ + SCORE_INCREMENT]
         ELSE s
    ELSE s

(* check_block disabling a block that has passed the bottom. *)
check_block_disables(s, i, t) ==
    LET b == s.blocks[i] IN
    IF b.enabled /\ ~b.waiting_for_respawn
    THEN IF check_player_collision(s.player, b)
         THEN [s EXCEPT !.phase = PHASE_DEATH,
                        !.auto_advance_time = t + DEATH_SCREEN_DELAY]
         ELSE IF b.y > display_height
         THEN [s EXCEPT !.blocks[i].enabled = FALSE,
                        !.player.score = @ + SCORE_INCREMENT]
         ELSE s
    ELSE s

(* The body of check_collisions' loop for block i, at clock reading t. *)
check_block(s, i, t) ==
    LET b == s.blocks[i] IN
    IF b.enabled /\ ~b.waiting_for_respawn
    THEN IF check_player_collision(s.player, b)
         THEN [s EXCEPT !.phase = PHASE_DEATH,
                        !.auto_advance_time = t + DEATH_SCREEN_DELAY]
         ELSE IF b.y > display_height
         THEN [s EXCEPT !.blocks[i].waiting_for_respawn = TRUE,
                        !.player.score = @ + SCORE_INCREMENT]
         ELSE s
    ELSE s

(* The loop of check_collisions, from index i on, at clock reading t. *)
RECURSIVE check_collisions(_, _, _)
check_collisions(s, i, t) ==
    IF i >= MAX_BLOCKS THEN s
    ELSE check_collisions(check_block(s, i, t), i + 1, t)

(* tick_phase without the return to the menu. *)
tick_phase_never(s, t) == s

(* tick_phase leaving the death screen only after the deadline. *)
tick_phase_strict(s, t) ==
    IF s.phase = PHASE_DEATH /\ s.auto_advance_time < t
    THEN [s EXCEPT !.selection = 0, !.phase = PHASE_MENU]
    ELSE s

(* The death-screen check at the top of tick. *)
tick_phase(s, t) ==
    IF s.phase = PHASE_DEATH /\ s.auto_advance_time <= t
    THEN [s EXCEPT !.selection = 0, !.phase = PHASE_MENU]
    ELSE s

(* move_player keeping only the left edge of the player inside the display. *)
move_player_edge(s, dtUs) ==
    LET d  == calc_velocity(s.velocity * PLAYER_VELOCITY_MULT, dtUs)
        x1 == IF s.player_direction = DIR_LEFT THEN s.player.x - d
              ELSE IF s.player_direction = DIR_RIGHT THEN s.player.x + d
              ELSE s.player.x
        x2 == IF x1 < 0 THEN 0
              ELSE IF x1 > display_width THEN display_width - PLAYER_WIDTH
              ELSE x1
    IN  [s EXCEPT !.player.x = x2]

(* "Move the player" and "Keep player inside game". *)
move_player(s, dtUs) ==
    LET d  == calc_velocity(s.velocity * PLAYER_VELOCITY_MULT, dtUs)
        x1 == IF s.player_direction = DIR_LEFT THEN s.player.x - d
              ELSE IF s.player_direction = DIR_RIGHT THEN s.player.x + d
              ELSE s.player.x
        x2 == IF x1 < 0 THEN 0
              ELSE IF x1 + PLAYER_WIDTH > display_width THEN display_width - PLAYER_WIDTH
              ELSE x1
    IN  [s EXCEPT !.player.x = x2]

(* scale_difficulty with a velocity that falls back at every other step. *)
scale_difficulty_sawtooth(s) ==
    IF s.player.score > SCORE_THRESHOLD
    THEN LET score_difference == s.player.score - SCORE_THRESHOLD IN
         [s EXCEPT !.blocks = enable_blocks(s.blocks,
                                  (score_difference \div BLOCK_SCORE_STEP) + STARTING_BLOCKS),
                   !.velocity = STARTING_VELOCITY
                                  + ((score_difference \div VELOCITY_SCORE_STEP) % 4)]
    ELSE s

(* scale_difficulty raising the velocity only. *)
scale_difficulty_no_blocks(s) ==
    IF s.player.score > SCORE_THRESHOLD
    THEN LET score_difference == s.player.score - SCORE_THRESHOLD IN
         [s EXCEPT !.velocity = STARTING_VELOCITY
                                  + ((score_difference \div VELOCITY_SCORE_STEP) \div 2)]
    ELSE s

(* "Increase speed and amount of blocks as the users score rises". *)
scale_difficulty(s) ==
    IF s.player.score > SCORE_THRESHOLD
    THEN LET score_difference == s.player.score - SCORE_THRESHOLD IN
         [s EXCEPT !.blocks = enable_blocks(s.blocks,
                                  (score_difference \div BLOCK_SCORE_STEP) + STARTING_BLOCKS),
                   \* (int)(STARTING_VELOCITY + (score_difference/400)*0.5)
                   !.velocity = STARTING_VELOCITY
                                  + ((score_difference \div VELOCITY_SCORE_STEP) \div 2)]
    ELSE s

(* The Game branch of tick up to, not including, check_collisions: the set
   of outcomes [s, ls] at the collision check. *)
tick_move(s, ls, dtUs) ==
    LET s1 == move_player(s, dtUs) IN
    {[s |-> scale_difficulty([s1 EXCEPT !.blocks = m.blocks]), ls |-> m.ls] :
        m \in move_blocks(s1.blocks, ls, 0, calc_velocity(s1.velocity, dtUs))}

(* tick running its Game branch in every phase. *)
tick_any_phase(s, ls, dtUs, t) ==
    LET s0 == tick_phase(s, t) IN
    {[s |-> check_collisions(m.s, 0, t), ls |-> m.ls, chk |-> m.s, ran |-> TRUE] :
        m \in tick_move(s0, ls, dtUs)}

(* tick(dt, state) at clock reading t: the set of outcomes [s, ls, chk, ran];
   ran says whether the Game branch ran and chk is then the game state at
   the collision check. *)
tick(s, ls, dtUs, t) ==
    LET s0 == tick_phase(s, t) IN
    IF s0.phase = PHASE_GAME
    THEN {[s |-> check_collisions(m.s, 0, t), ls |-> m.ls, chk |-> m.s, ran |-> TRUE] :
             m \in tick_move(s0, ls, dtUs)}
    ELSE {[s |-> s0, ls |-> ls, chk |-> s0, ran |-> FALSE]}

(* menu_input starting the game on the third press. *)
menu_input_three_presses(s) ==
    IF s.selection + 1 > 2
    THEN initialise_game([s EXCEPT !.selection = 0, !.phase = PHASE_GAME])
    ELSE [s EXCEPT !.selection = @ + 1]

(* menu_input starting the game on the first press. *)
menu_input_one_press(s) ==
    IF s.selection + 1 > 0
    THEN initialise_game([s EXCEPT !.selection = 0, !.phase = PHASE_GAME])
    ELSE [s EXCEPT !.selection = @ + 1]

(* case PHASE_MENU of handleInputPacket. *)
menu_input(s) ==
    IF s.selection + 1 > 1
    THEN initialise_game([s EXCEPT !.selection = 0, !.phase = PHASE_GAME])
    ELSE [s EXCEPT !.selection = @ + 1]

(* death_input going straight back into the game. *)
death_input_restarts(s, t) ==
    IF t >= s.auto_advance_time - DEATH_INPUT_GUARD_US
    THEN [s EXCEPT !.phase = PHASE_GAME]
    ELSE s

(* death_input without the guard window. *)
death_input_unguarded(s, t) ==
    [s EXCEPT !.phase = PHASE_MENU]

(* death_input advancing the menu selection as a press in the menu does. *)
death_input_selects(s, t) ==
    IF t >= s.auto_advance_time - DEATH_INPUT_GUARD_US
    THEN [s EXCEPT !.phase = PHASE_MENU, !.selection = @ + 1]
    ELSE s

(* case PHASE_DEATH of handleInputPacket, at clock reading t. *)
death_input(s, t) ==
    IF t >= s.auto_advance_time - DEATH_INPUT_GUARD_US
    THEN [s EXCEPT !.phase = PHASE_MENU]
    ELSE s

(* handleInputPacket without the start-up quiet window. *)
handleInputPacket_no_quiet(s, input, t) ==
    IF s.phase = PHASE_GAME
    THEN [s |-> [s EXCEPT !.player_direction = input], warned |-> FALSE]
    ELSE IF input # DIR_NONE
    THEN CASE s.phase = PHASE_MENU -> [s |-> menu_input(s), warned |-> FALSE]
           [] s.phase = PHASE_DEATH -> [s |-> death_input(s, t), warned |-> FALSE]
           [] OTHER -> [s |-> s, warned |-> TRUE]
    ELSE [s |-> s, warned |-> FALSE]

(* handleInputPacket keeping the direction on a release (None) in Game. *)
handleInputPacket_none_ignored(s, input, t) ==
    IF t < STARTUP_QUIET_US THEN [s |-> s, warned |-> FALSE]
    ELSE IF input # DIR_NONE
    THEN CASE s.phase = PHASE_GAME ->
                [s |-> [s EXCEPT !.player_direction = input], warned |-> FALSE]
           [] s.phase = PHASE_MENU -> [s |-> menu_input(s), warned |-> FALSE]
           [] s.phase = PHASE_DEATH -> [s |-> death_input(s, t), warned |-> FALSE]
           [] OTHER -> [s |-> s, warned |-> TRUE]
    ELSE [s |-> s, warned |-> FALSE]

(* handleInputPacket at clock reading t: [s, warned]. *)
handleInputPacket(s, input, t) ==
    IF t < STARTUP_QUIET_US THEN [s |-> s, warned |-> FALSE]
    ELSE IF s.phase = PHASE_GAME
    THEN [s |-> [s EXCEPT !.player_direction = input], warned |-> FALSE]
    ELSE IF input # DIR_NONE
    THEN CASE s.phase = PHASE_MENU -> [s |-> menu_input(s), warned |-> FALSE]
           [] s.phase = PHASE_DEATH -> [s |-> death_input(s, t), warned |-> FALSE]
           [] OTHER -> [s |-> s, warned |-> TRUE]
    ELSE [s |-> s, warned |-> FALSE]

(* The blocks render_game draws. *)
render_game(s) ==
    {i \in BlockIdx : s.blocks[i].enabled /\ ~s.blocks[i].waiting_for_respawn}

(* The default branch of render's switch. *)
render_warns(s) == s.phase \notin {PHASE_MENU, PHASE_DEATH, PHASE_GAME}

(* ------------------------------------------------------------------ *)
(* The event bridge and the game loop                                   *)
(* ------------------------------------------------------------------ *)

(* xQueueSend putting the packet at the front of the queue. *)
xQueueSend_front(q, packet) ==
    IF Len(q) < QUEUE_LENGTH THEN <<packet>> \o q ELSE q

(* xQueueSend making room by dropping the oldest packet. *)
xQueueSend_overwrite(q, packet) ==
    IF Len(q) < QUEUE_LENGTH THEN Append(q, packet) ELSE Append(Tail(q), packet)

(* xQueueSend / xQueueSendFromISR with no wait: the packet is left out
   when the queue is full. *)
xQueueSend(q, packet) ==
    IF Len(q) < QUEUE_LENGTH THEN Append(q, packet) ELSE q

(* The blocks of s on the field: enabled and not waiting for respawn. *)
OnField(s) == {i \in BlockIdx : s.blocks[i].enabled /\ ~s.blocks[i].waiting_for_respawn}

(* What the last packet handled by the game loop was and did: its type and
   data, the phase it found, and for a tick whose Game branch ran, taken at
   the collision check: the blocks on the field (field), those overlapping
   the player (hit), those past the bottom of the display without
   overlapping it (passed), the score, and the blocks the tick placed at
   the top (spawned). *)
NoEvent(kind, data, s) ==
    [kind |-> kind, data |-> data, phase0 |-> s.phase, field |-> {}, hit |-> {},
     passed |-> {}, score0 |-> s.player.score, spawned |-> {}]

Event(kind, data, s0, chk) ==
    [kind   |-> kind,
     data   |-> data,
     phase0 |-> s0.phase,
     field  |-> OnField(chk),
     hit    |-> {i \in OnField(chk) : check_player_collision(chk.player, chk.blocks[i])},
     passed |-> {i \in OnField(chk) : /\ ~check_player_collision(chk.player, chk.blocks[i])
                                      /\ chk.blocks[i].y > display_height},
     score0 |-> chk.player.score,
     spawned |-> {i \in BlockIdx : /\ s0.blocks[i].enabled
                                   /\ s0.blocks[i].waiting_for_respawn
                                   /\ ~chk.blocks[i].waiting_for_respawn}]

ZeroBlock == [x |-> 0, y |-> 0, enabled |-> FALSE, waiting_for_respawn |-> FALSE]

(* GameState state = { .phase = PHASE_MENU }: every other member is zero. *)
InitState ==
    [phase |-> PHASE_MENU, velocity |-> 0, player_direction |-> 0, selection |-> 0,
     blocks |-> [i \in BlockIdx |-> ZeroBlock],
     player |-> [x |-> 0, y |-> 0, score |-> 0],
     auto_advance_time |-> 0]

(* The program when start_game enters its loop. *)
Boot ==
    /\ state = InitState
    /\ last_spawned = NULL
    /\ packet_queue = <<>>
    /\ now = 0
    /\ last_time = 0
    /\ last_press_time = 0
    /\ button_status = [p \in Pins |-> 1]
    /\ intr_type = [p \in Pins |-> LOW_LEVEL]
    /\ frame = 0
    /\ warned = FALSE
    /\ ev = NoEvent("Start", 0, InitState)

Init ==
    /\ Boot
    /\ rand_values = RandXs

(* The clock advances by d microseconds. *)
Elapse(d) ==
    /\ d > 0
    /\ now' = now + d
    /\ UNCHANGED <<state, last_spawned, packet_queue, last_time, last_press_time,
                   button_status, intr_type, frame, rand_values, warned, ev>>

(* game_tick_timer_callback adding the time of a tick it cannot send to
   the newest tick waiting in the queue. *)
game_tick_timer_callback_coalesce ==
    /\ now - last_time >= TICK_PERIOD_US
    /\ LET dt == now - last_time
           ticks == {k \in 1..Len(packet_queue) : packet_queue[k].type = PACKET_TICK}
       IN  packet_queue' =
             IF Len(packet_queue) < QUEUE_LENGTH
             THEN Append(packet_queue, [type |-> PACKET_TICK, data |-> dt])
             ELSE IF ticks = {} THEN packet_queue
             ELSE LET k == CHOOSE m \in ticks : \A n \in ticks : n <= m
                  IN  [packet_queue EXCEPT ![k].data = @ + dt]
    /\ last_time' = now
    /\ UNCHANGED <<state, last_spawned, now, last_press_time, button_status,
                   intr_type, frame, rand_values, warned, ev>>

(* The periodic timer fires, a period or more after its last firing. *)
game_tick_timer_callback ==
    /\ now - last_time >= TICK_PERIOD_US
    /\ LET dt == now - last_time IN
       packet_queue' = xQueueSend(packet_queue, [type |-> PACKET_TICK, data |-> dt])
    /\ last_time' = now
    /\ UNCHANGED <<state, last_spawned, now, last_press_time, button_status,
                   intr_type, frame, rand_values, warned, ev>>

(* gpio_button_isr_handler re-arming the pin only for an interrupt that
   passes the debounce test. *)
gpio_button_isr_handler_rearm_accepted(gpio_pin) ==
    LET isPressed == button_status[gpio_pin]
        accepted == now - last_press_time > DEBOUNCE_US
    IN
    /\ packet_queue' =
          IF accepted
          THEN xQueueSend(packet_queue,
                   [type |-> PACKET_INPUT,
                    data |-> IF isPressed = 1
                             THEN (IF gpio_pin = GPIO_RIGHT THEN DIR_RIGHT ELSE DIR_LEFT)
                             ELSE DIR_NONE])
          ELSE packet_queue
    /\ button_status' = [button_status EXCEPT ![gpio_pin] = IF isPressed = 1 THEN 0 ELSE 1]
    /\ last_press_time' = now
    /\ intr_type' = IF accepted
                    THEN [intr_type EXCEPT ![gpio_pin] =
                             IF isPressed = 1 THEN HIGH_LEVEL ELSE LOW_LEVEL]
                    ELSE intr_type
    /\ UNCHANGED <<state, last_spawned, now, last_time, frame, rand_values, warned, ev>>

(* gpio_button_isr_handler setting the player's direction itself. *)
gpio_button_isr_handler_direct(gpio_pin) ==
    LET isPressed == button_status[gpio_pin]
        dir == IF isPressed = 1
               THEN (IF gpio_pin = GPIO_RIGHT THEN DIR_RIGHT ELSE DIR_LEFT)
               ELSE DIR_NONE
    IN
    /\ packet_queue' =
          IF now - last_press_time > DEBOUNCE_US
          THEN xQueueSend(packet_queue, [type |-> PACKET_INPUT, data |-> dir])
          ELSE packet_queue
    /\ state' = [state EXCEPT !.player_direction = dir]
    /\ button_status' = [button_status EXCEPT ![gpio_pin] = IF isPressed = 1 THEN 0 ELSE 1]
    /\ last_press_time' = now
    /\ intr_type' = [intr_type EXCEPT ![gpio_pin] =
                         IF isPressed = 1 THEN HIGH_LEVEL ELSE LOW_LEVEL]
    /\ UNCHANGED <<last_spawned, now, last_time, frame, rand_values, warned, ev>>

(* The level interrupt of a pin fires: the pin has reached the level the
   interrupt is armed for. *)
gpio_button_isr_handler(gpio_pin) ==
    LET isPressed == button_status[gpio_pin] IN
    /\ packet_queue' =
          IF now - last_press_time > DEBOUNCE_US
          THEN xQueueSend(packet_queue,
                   [type |-> PACKET_INPUT,
                    data |-> IF isPressed = 1
                             THEN (IF gpio_pin = GPIO_RIGHT THEN DIR_RIGHT ELSE DIR_LEFT)
                             ELSE DIR_NONE])
          ELSE packet_queue
    /\ button_status' = [button_status EXCEPT ![gpio_pin] = IF isPressed = 1 THEN 0 ELSE 1]
    /\ last_press_time' = now
    /\ intr_type' = [intr_type EXCEPT ![gpio_pin] =
                         IF isPressed = 1 THEN HIGH_LEVEL ELSE LOW_LEVEL]
    /\ UNCHANGED <<state, last_spawned, now, last_time, frame, rand_values, warned, ev>>

(* start_game's loop, the end of an iteration: vTaskDelay(1) is called
   unless a packet was received and frame is a multiple of TARGET_FPS. *)
yields(fr, received) == fr % TARGET_FPS # 0 \/ ~received

(* start_game's loop, an iteration that receives a tick packet. *)
ReceiveTick ==
    /\ packet_queue # <<>>
    /\ Head(packet_queue).type = PACKET_TICK
    /\ \E r \in tick(state, last_spawned, Head(packet_queue).data, now) :
          /\ state' = r.s
          /\ last_spawned' = r.ls
          /\ warned' = (warned \/ render_warns(r.s))
          /\ ev' = IF r.ran
                   THEN Event("Tick", Head(packet_queue).data, state, r.chk)
                   ELSE NoEvent("Tick", Head(packet_queue).data, state)
    /\ packet_queue' = Tail(packet_queue)
    /\ frame' = frame + 1
    /\ UNCHANGED <<now, last_time, last_press_time, button_status, intr_type,
                   rand_values>>

(* start_game's loop, an iteration that receives an input packet. *)
ReceiveInput ==
    /\ packet_queue # <<>>
    /\ Head(packet_queue).type = PACKET_INPUT
    /\ LET r == handleInputPacket(state, Head(packet_queue).data, now) IN
          /\ state' = r.s
          /\ warned' = (warned \/ r.warned)
          /\ ev' = NoEvent("Input", Head(packet_queue).data, state)
    /\ packet_queue' = Tail(packet_queue)
    /\ UNCHANGED <<last_spawned, now, last_time, last_press_time, button_status,
                   intr_type, frame, rand_values>>

(* start_game's loop, an iteration whose xQueueReceive timed out. *)
ReceiveTimeout ==
    /\ packet_queue = <<>>
    /\ UNCHANGED vars

(* The steps of the clock: the length of the death screen's guard window. *)
Steps == {DEATH_SCREEN_DELAY - DEATH_INPUT_GUARD_US}

(* The timer callback has run for the current reading of the clock. *)
TimerServed == last_time = now

(* The main specification.  The timer callback runs once per reading of the
   clock, the clock stops at MaxTime except to wait for the deadline of a
   death screen, and the producers run while fewer than MaxBacklog packets
   wait in the queue. *)
Next ==
    \/ \E d \in Steps : TimerServed /\ now + d <= MaxTime /\ Elapse(d)
    \/ /\ TimerServed
       /\ state.phase = PHASE_DEATH
       /\ Elapse(state.auto_advance_time - now)
    \/ Len(packet_queue) < MaxBacklog /\ game_tick_timer_callback
    \/ \E p \in Pins : Len(packet_queue) < MaxBacklog /\ gpio_button_isr_handler(p)
    \/ ReceiveTick
    \/ ReceiveInput
    \/ ReceiveTimeout

Spec == Init /\ [][Next]_vars

(* The game loop takes the packet at the head of the queue: among the steps
   of Next, those of ReceiveTick and ReceiveInput. *)
Drain ==
    /\ packet_queue # <<>>
    /\ packet_queue' = Tail(packet_queue)

(* The main specification with its scheduling: the clock runs on
   (ClockStep), the periodic timer keeps firing, and start_game's loop,
   which never ends, keeps receiving. *)
ClockStep ==
    \/ \E d \in Steps : TimerServed /\ now + d <= MaxTime /\ Elapse(d)
    \/ /\ TimerServed
       /\ state.phase = PHASE_DEATH
       /\ Elapse(state.auto_advance_time - now)

LiveSpec ==
    /\ Init /\ [][Next]_vars
    /\ WF_vars(ClockStep)
    /\ WF_vars(Len(packet_queue) < MaxBacklog /\ game_tick_timer_callback)
    /\ WF_packet_queue(Drain)

(* ---- one long game ---- *)

(* The score at which the long game stops: past the first score whose
   difficulty scaling gives a velocity above MAX_VELOCITY. *)
MaxScore == 63000

(* The long game: rand() keeps drawing the left column and the buttons are
   left alone once the game runs, so the player stays in the centre and no
   block ever reaches it. *)
MarathonInit ==
    /\ Boot
    /\ rand_values = {0}

(* The clock stops at MaxTime outside a game, and in a game once the score
   has reached MaxScore. *)
MarathonNext ==
    \/ \E d \in Steps :
          /\ TimerServed
          /\ IF state.phase = PHASE_GAME
             THEN state.player.score < MaxScore
             ELSE now + d <= MaxTime
          /\ Elapse(d)
    \/ Len(packet_queue) < MaxBacklog /\ game_tick_timer_callback
    \/ \E p \in Pins :
          /\ state.phase = PHASE_MENU
          /\ Len(packet_queue) < MaxBacklog
          /\ gpio_button_isr_handler(p)
    \/ ReceiveTick
    \/ ReceiveInput
    \/ ReceiveTimeout

MarathonSpec == MarathonInit /\ [][MarathonNext]_vars

(* The long game with its scheduling: the clock runs on until the game has
   reached MaxScore, the periodic timer keeps firing and start_game's loop
   keeps receiving. *)
MarathonClock ==
    \E d \in Steps :
        /\ TimerServed
        /\ IF state.phase = PHASE_GAME
           THEN state.player.score < MaxScore
           ELSE now + d <= MaxTime
        /\ Elapse(d)

MarathonLiveSpec ==
    /\ MarathonSpec
    /\ WF_vars(MarathonClock)
    /\ WF_vars(Len(packet_queue) < MaxBacklog /\ game_tick_timer_callback)
    /\ WF_packet_queue(Drain)

(* ---- several games in a row ---- *)

(* The clock stops at MaxSessionTime. *)
MaxSessionTime == 16000000

(* Games played one after another: rand() draws the left column, which
   passes beside the player, or the centre, which hits it.  Outside a game
   the left button changes its level once at every reading of the clock;
   while a game runs it is left alone. *)
SessionInit ==
    /\ Boot
    /\ rand_values = {0, (display_width - BLOCK_WIDTH) \div 2}

(* The button interrupt has run for the current reading of the clock. *)
ButtonServed == last_press_time = now

SessionNext ==
    \/ \E d \in Steps :
          /\ TimerServed
          /\ state.phase = PHASE_GAME \/ ButtonServed
          /\ now + d <= MaxSessionTime
          /\ Elapse(d)
    \/ Len(packet_queue) < MaxBacklog /\ game_tick_timer_callback
    \/ /\ state.phase # PHASE_GAME
       /\ Len(packet_queue) < MaxBacklog
       /\ now - last_press_time > DEBOUNCE_US
       /\ gpio_button_isr_handler(GPIO_LEFT)
    \/ ReceiveTick
    \/ ReceiveInput
    \/ ReceiveTimeout

SessionSpec == SessionInit /\ [][SessionNext]_vars

(* ---- the event bridge under load ---- *)

(* The number of timer periods the clock runs for. *)
BridgeReadings == 6

(* The timer, the left button and the game loop in any order, the
   producers however far ahead of the game loop: the clock advances by one
   timer period at a time, once the timer callback has run, and stops after
   BridgeReadings periods, inside the start-up quiet window. *)
BridgeNext ==
    \/ /\ TimerServed
       /\ now + TICK_PERIOD_US <= BridgeReadings * TICK_PERIOD_US
       /\ Elapse(TICK_PERIOD_US)
    \/ game_tick_timer_callback
    \/ gpio_button_isr_handler(GPIO_LEFT)
    \/ ReceiveTick
    \/ ReceiveInput
    \/ ReceiveTimeout

BridgeSpec == Init /\ [][BridgeNext]_vars

(* ---- a timer that fires every 280 ms ---- *)

(* The steps of the clock, and where it stops. *)
PhysicsSteps == {280000}
MaxPhysicsTime == 2800000

(* The long game's schedule with the slower timer: the buttons work in the
   menu only, rand() draws the left column. *)
PhysicsNext ==
    \/ \E d \in PhysicsSteps :
          TimerServed /\ now + d <= MaxPhysicsTime /\ Elapse(d)
    \/ Len(packet_queue) < MaxBacklog /\ game_tick_timer_callback
    \/ \E p \in Pins :
          /\ state.phase = PHASE_MENU
          /\ Len(packet_queue) < MaxBacklog
          /\ gpio_button_isr_handler(p)
    \/ ReceiveTick
    \/ ReceiveInput
    \/ ReceiveTimeout

PhysicsSpec == MarathonInit /\ [][PhysicsNext]_vars

(* ---- the buttons at the scale of the debounce threshold ---- *)

(* The step of the clock, and where it stops. *)
DebounceStep == 250
MaxDebounceTime == 1500

(* The button interrupts at any of the clock readings, any number of times
   at one reading: the left button without restriction, the right button
   for its first interrupt only.  The timer is not due yet, and the game
   loop discards what it receives (the start-up quiet window). *)
DebounceNext ==
    \/ now + DebounceStep <= MaxDebounceTime /\ Elapse(DebounceStep)
    \/ gpio_button_isr_handler(GPIO_LEFT)
    \/ button_status[GPIO_RIGHT] = 1 /\ gpio_button_isr_handler(GPIO_RIGHT)
    \/ ReceiveInput
    \/ ReceiveTimeout

DebounceSpec == Init /\ [][DebounceNext]_vars

(* ------------------------------------------------------------------ *)
(* Properties                                                           *)
(* ------------------------------------------------------------------ *)

(* The step is an iteration of the game loop that receives a tick (an input). *)
TickStep ==
    /\ packet_queue # <<>>
    /\ Head(packet_queue).type = PACKET_TICK
    /\ packet_queue' = Tail(packet_queue)

InputStep ==
    /\ packet_queue # <<>>
    /\ Head(packet_queue).type = PACKET_INPUT
    /\ packet_queue' = Tail(packet_queue)

Phases == {PHASE_MENU, PHASE_DEATH, PHASE_GAME}

(* C1: the phase is always Menu, Game or Death and starts as Menu; it
   changes only Menu->Game on an input, Game->Death on a tick, and
   Death->Menu on an input or a tick; no unknown-phase warning is printed. *)
C1_PhaseTable ==
    /\ state.phase = PHASE_MENU
    /\ [](state.phase \in Phases /\ ~warned)
    /\ [][state'.phase # state.phase =>
            \/ state.phase = PHASE_MENU /\ state'.phase = PHASE_GAME /\ InputStep
            \/ state.phase = PHASE_GAME /\ state'.phase = PHASE_DEATH /\ TickStep
            \/ /\ state.phase = PHASE_DEATH /\ state'.phase = PHASE_MENU
               /\ (InputStep \/ TickStep)]_vars

(* A second game has been started: the phase went all the way round. *)
C1_Witness ==
    /\ state.phase = PHASE_GAME
    /\ ev.kind = "Input" /\ ev.phase0 = PHASE_MENU
    /\ last_spawned # NULL

(* C2: a tick handled in Game in which a block on the field overlaps the
   player at the collision check ends with phase Death and the deadline
   at the clock reading plus DEATH_SCREEN_DELAY; and whenever the phase
   becomes Death the deadline is armed in that same step. *)
C2_CollisionArmsDeath ==
    [][/\ (TickStep /\ state.phase = PHASE_GAME /\ ev'.hit # {}) =>
            /\ state'.phase = PHASE_DEATH
            /\ state'.auto_advance_time = now + DEATH_SCREEN_DELAY
       /\ (state.phase # PHASE_DEATH /\ state'.phase = PHASE_DEATH) =>
            /\ TickStep /\ ev'.hit # {}
            /\ state'.auto_advance_time = now + DEATH_SCREEN_DELAY]_vars

(* A tick in Game found a block on the player and armed the death screen. *)
C2_Witness ==
    /\ ev.kind = "Tick" /\ ev.phase0 = PHASE_GAME /\ ev.hit # {}
    /\ state.phase = PHASE_DEATH
    /\ state.auto_advance_time = now + DEATH_SCREEN_DELAY

(* C3: after a tick handled in Game, and right after the game reset, the
   player lies inside the display: 0 <= x <= display_width - PLAYER_WIDTH. *)
C3_PlayerInside ==
    (\/ ev.kind = "Tick" /\ ev.phase0 = PHASE_GAME
     \/ ev.kind = "Input" /\ ev.phase0 = PHASE_MENU /\ state.phase = PHASE_GAME)
    => /\ 0 <= state.player.x
       /\ state.player.x <= display_width - PLAYER_WIDTH

(* A tick moved the player to the right and the clamp held it at the edge. *)
C3_Witness ==
    /\ ev.kind = "Tick" /\ ev.phase0 = PHASE_GAME
    /\ state.player_direction = DIR_RIGHT
    /\ state.player.x = display_width - PLAYER_WIDTH

(* C4: after a tick whose Game branch ran, the blocks that were on the field
   at the collision check and are now waiting for respawn are exactly those
   that had passed the bottom without overlapping the player, and the score
   is the score at the check plus SCORE_INCREMENT for each of them: a
   block already waiting adds nothing. *)
C4_ScoreOncePerCrossing ==
    (ev.kind = "Tick" /\ ev.phase0 = PHASE_GAME) =>
        /\ \A i \in ev.passed : state.blocks[i].waiting_for_respawn
        /\ \A i \in ev.field \ ev.passed : ~state.blocks[i].waiting_for_respawn
        /\ state.player.score = ev.score0 + SCORE_INCREMENT * Cardinality(ev.passed)

(* A tick ran its collision check while an enabled block was waiting for
   respawn with its y past the bottom, and scored nothing. *)
C4_Witness ==
    /\ ev.kind = "Tick" /\ ev.phase0 = PHASE_GAME /\ ev.passed = {}
    /\ \E i \in BlockIdx : /\ state.blocks[i].enabled
                            /\ state.blocks[i].waiting_for_respawn
                            /\ state.blocks[i].y > display_height
                            /\ i \notin ev.spawned

(* C5: a block that overlaps the player at the collision check of a tick is
   not marked waiting for respawn, and the score rises by SCORE_INCREMENT
   for each of the other blocks the tick marks, never for an overlapping one. *)
C5_HitNeverScores ==
    (ev.kind = "Tick" /\ ev.phase0 = PHASE_GAME) =>
        /\ \A i \in ev.hit : ~state.blocks[i].waiting_for_respawn
        /\ state.player.score - ev.score0 =
              SCORE_INCREMENT * Cardinality({i \in ev.field \ ev.hit :
                                               state.blocks[i].waiting_for_respawn})

(* One tick in which a block hit the player and another one scored. *)
C5_Witness ==
    /\ ev.kind = "Tick" /\ ev.hit # {} /\ ev.passed # {}
    /\ state.phase = PHASE_DEATH
    /\ state.player.score = ev.score0 + SCORE_INCREMENT

(* The game state right after a game reset: what initialise_game must leave. *)
FreshGame(s) ==
    /\ s.phase = PHASE_GAME
    /\ s.selection = 0
    /\ s.player_direction = DIR_NONE
    /\ s.velocity = STARTING_VELOCITY
    /\ s.player.score = 0
    /\ 2 * s.player.x + PLAYER_WIDTH \in {display_width - 1, display_width}
    /\ \A i \in BlockIdx :
          /\ s.blocks[i].enabled = (i < STARTING_BLOCKS)
          /\ s.blocks[i].waiting_for_respawn = (i < STARTING_BLOCKS)

(* C6: an input handled in Menu after the quiet window: None changes
   nothing; Left or Right with selection 0 only sets selection to 1; Left
   or Right with selection 1 starts a freshly reset game with selection 0. *)
C6_MenuTwoPresses ==
    [][(InputStep /\ now >= STARTUP_QUIET_US /\ state.phase = PHASE_MENU) =>
         LET input == Head(packet_queue).data IN
         /\ input = DIR_NONE => state' = state
         /\ (input # DIR_NONE /\ state.selection = 0) =>
               state' = [state EXCEPT !.selection = 1]
         /\ (input # DIR_NONE /\ state.selection = 1) => FreshGame(state')]_vars

(* The first game was started by a press (Left or Right) on the
   instructions page. *)
C6_Witness ==
    /\ ev.kind = "Input" /\ ev.phase0 = PHASE_MENU /\ ev.data # DIR_NONE
    /\ state.phase = PHASE_GAME /\ state.selection = 0
    /\ last_spawned = NULL

(* C7: an input handled in Death before auto_advance_time - 4.5 s changes
   nothing; Left or Right handled at or after that time sets phase Menu. *)
C7_DeathGuard ==
    [][(InputStep /\ state.phase = PHASE_DEATH) =>
         /\ now < state.auto_advance_time - DEATH_INPUT_GUARD_US => state' = state
         /\ (/\ now >= state.auto_advance_time - DEATH_INPUT_GUARD_US
             /\ Head(packet_queue).data # DIR_NONE) => state'.phase = PHASE_MENU]_vars

(* A press was handled on the death screen inside the guard window and
   ignored. *)
C7_Witness ==
    /\ ev.kind = "Input" /\ ev.phase0 = PHASE_DEATH /\ ev.data # DIR_NONE
    /\ state.phase = PHASE_DEATH
    /\ now < state.auto_advance_time - DEATH_INPUT_GUARD_US

(* C8: when an input has taken the phase from Death to Menu, selection is 0. *)
C8_DeathToMenuSelection ==
    (ev.kind = "Input" /\ ev.phase0 = PHASE_DEATH /\ state.phase = PHASE_MENU)
    => state.selection = 0

(* A press after the guard window dismissed the death screen. *)
C8_Witness ==
    /\ ev.kind = "Input" /\ ev.phase0 = PHASE_DEATH /\ ev.data # DIR_NONE
    /\ state.phase = PHASE_MENU /\ state.selection = 0

(* C9: a tick handled in Death at or after the deadline sets phase Menu and
   selection 0 and changes nothing else (no physics runs); a tick handled
   in Death before the deadline leaves the phase Death. *)
C9_TickAutoAdvance ==
    [][(TickStep /\ state.phase = PHASE_DEATH) =>
         IF now >= state.auto_advance_time
         THEN /\ state' = [state EXCEPT !.phase = PHASE_MENU, !.selection = 0]
              /\ last_spawned' = last_spawned
         ELSE state'.phase = PHASE_DEATH]_vars

(* A tick handled at the deadline returned to the menu. *)
C9_Witness ==
    /\ ev.kind = "Tick" /\ ev.phase0 = PHASE_DEATH
    /\ state.phase = PHASE_MENU
    /\ now >= state.auto_advance_time

(* C10: under LiveSpec, once the phase is Death it eventually becomes Menu,
   whether or not an input arrives and however late the ticks are handled. *)
C10_DeathLeadsToMenu ==
    (state.phase = PHASE_DEATH) ~> (state.phase = PHASE_MENU)

(* The death screen was left by a tick handled late: the timer sent it
   before the deadline and the game loop received it after. *)
C10_Witness ==
    /\ ev.kind = "Tick" /\ ev.phase0 = PHASE_DEATH
    /\ state.phase = PHASE_MENU
    /\ last_time < state.auto_advance_time
    /\ last_time < now

(* C11: an input handled while the clock is below one second changes no
   field of the game state, whatever its direction and the phase. *)
C11_QuietWindow ==
    [][(InputStep /\ now < STARTUP_QUIET_US) => state' = state]_vars

(* A press was handled inside the quiet window. *)
C11_Witness ==
    /\ ev.kind = "Input" /\ ev.data # DIR_NONE
    /\ now < STARTUP_QUIET_US
    /\ packet_queue = <<>>

(* C12: an input handled in Game after the quiet window sets
   player_direction to the packet's direction, None included, and changes
   nothing else of the game state. *)
C12_GameInputSetsDirection ==
    [][(InputStep /\ now >= STARTUP_QUIET_US /\ state.phase = PHASE_GAME) =>
          state' = [state EXCEPT !.player_direction = Head(packet_queue).data]]_vars

(* A release (None) was handled in Game after the player had been moved
   away from the centre: the direction went back to None. *)
C12_Witness ==
    /\ ev.kind = "Input" /\ ev.phase0 = PHASE_GAME /\ ev.data = DIR_NONE
    /\ state.phase = PHASE_GAME /\ state.player_direction = DIR_NONE
    /\ state.player.x # (display_width \div 2) - (PLAYER_WIDTH \div 2)

(* C13: in every reachable state the velocity is at most MAX_VELOCITY. *)
C13_VelocityCapped ==
    state.velocity <= MAX_VELOCITY

(* C14: while a game runs the velocity is at least STARTING_VELOCITY, and a
   tick handled in Game never lowers it. *)
C14_VelocityMonotone ==
    /\ [](state.phase = PHASE_GAME => state.velocity >= STARTING_VELOCITY)
    /\ [][(TickStep /\ state.phase = PHASE_GAME) =>
             state'.velocity >= state.velocity]_vars

(* A tick in Game scaled the velocity to a value it has been raised to in
   more than one step. *)
C14_Witness ==
    /\ ev.kind = "Tick" /\ ev.phase0 = PHASE_GAME
    /\ state.phase = PHASE_GAME
    /\ state.velocity > STARTING_VELOCITY + 1
    /\ state.velocity =
          STARTING_VELOCITY + (((ev.score0 - SCORE_THRESHOLD) \div VELOCITY_SCORE_STEP) \div 2)

(* The enabled blocks of s. *)
Enabled(s) == {i \in BlockIdx : s.blocks[i].enabled}

(* The step is the game reset: an input in Menu that starts a game. *)
GameReset == InputStep /\ state.phase = PHASE_MENU /\ state'.phase = PHASE_GAME

(* C15: at most MAX_BLOCKS blocks are enabled in every state, and no step
   other than the game reset disables a block, whatever the score. *)
C15_EnabledMonotone ==
    /\ [](Cardinality(Enabled(state)) <= MAX_BLOCKS)
    /\ [][GameReset \/ Enabled(state) \subseteq Enabled(state')]_vars

(* A tick scaled the difficulty with a score that asks for more than
   MAX_BLOCKS blocks, and the whole pool is enabled. *)
C15_Witness ==
    /\ ev.kind = "Tick" /\ ev.phase0 = PHASE_GAME
    /\ (ev.score0 - SCORE_THRESHOLD) \div BLOCK_SCORE_STEP + STARTING_BLOCKS > MAX_BLOCKS
    /\ Enabled(state) = BlockIdx

(* The least of two numbers. *)
Min(a, b) == IF a <= b THEN a ELSE b

(* The first score whose scaling raises the velocity (above MAX_VELOCITY). *)
FirstFasterScore == SCORE_THRESHOLD + 2 * VELOCITY_SCORE_STEP
FirstTooFastScore ==
    SCORE_THRESHOLD + 2 * VELOCITY_SCORE_STEP * (MAX_VELOCITY - STARTING_VELOCITY + 1)

(* C16, as stated: after a tick in Game that scaled the difficulty with a
   score of threshold + 200 or more, more than STARTING_BLOCKS blocks are
   enabled and the velocity is above STARTING_VELOCITY, both within
   MAX_BLOCKS and MAX_VELOCITY. *)
C16_AsStated ==
    (/\ ev.kind = "Tick" /\ ev.phase0 = PHASE_GAME
     /\ ev.score0 >= SCORE_THRESHOLD + 2 * SCORE_INCREMENT) =>
        /\ Cardinality(Enabled(state)) > STARTING_BLOCKS
        /\ Cardinality(Enabled(state)) <= MAX_BLOCKS
        /\ state.velocity > STARTING_VELOCITY
        /\ state.velocity <= MAX_VELOCITY

(* C16, amended: after a tick in Game that scaled the difficulty with a
   score s above the threshold, the enabled blocks are those below
   STARTING_BLOCKS + (s - 200) / 300, at most MAX_BLOCKS, and the velocity
   is STARTING_VELOCITY + ((s - 200) / 400) / 2; so from s = 1000 on both
   are above their starting values, and the velocity is within
   MAX_VELOCITY as long as s is below 61000. *)
C16_DifficultySteps ==
    (ev.kind = "Tick" /\ ev.phase0 = PHASE_GAME /\ ev.score0 > SCORE_THRESHOLD) =>
        LET score_difference == ev.score0 - SCORE_THRESHOLD IN
        /\ Enabled(state) =
              {i \in BlockIdx :
                  i < Min(MAX_BLOCKS, STARTING_BLOCKS + score_difference \div BLOCK_SCORE_STEP)}
        /\ state.velocity =
              STARTING_VELOCITY + (score_difference \div VELOCITY_SCORE_STEP) \div 2
        /\ ev.score0 >= FirstFasterScore =>
              /\ Cardinality(Enabled(state)) > STARTING_BLOCKS
              /\ state.velocity > STARTING_VELOCITY
        /\ ev.score0 < FirstTooFastScore => state.velocity <= MAX_VELOCITY

(* A tick scaled the difficulty at the first score that raises the
   velocity: five blocks are enabled and the velocity is one above its
   starting value. *)
C16_Witness ==
    /\ ev.kind = "Tick" /\ ev.phase0 = PHASE_GAME
    /\ ev.score0 = FirstFasterScore
    /\ Cardinality(Enabled(state)) > STARTING_BLOCKS
    /\ state.velocity = STARTING_VELOCITY + 1

(* C17: a disabled block is never waiting for respawn, and a tick leaves
   the position of a block that was disabled when it began unchanged, does
   not test it for a collision or score it, and does not draw it. *)
C17_DisabledBlocksInert ==
    /\ [](\A i \in BlockIdx :
            ~state.blocks[i].enabled => ~state.blocks[i].waiting_for_respawn)
    /\ [][TickStep =>
            \A i \in BlockIdx : ~state.blocks[i].enabled =>
                /\ state'.blocks[i].x = state.blocks[i].x
                /\ state'.blocks[i].y = state.blocks[i].y
                /\ i \notin ev'.field
                /\ i \notin render_game(state')]_vars

(* A tick ran in a game in which a block that an earlier game had brought
   into play is disabled, and left it where that game had left it. *)
C17_Witness ==
    /\ ev.kind = "Tick" /\ ev.phase0 = PHASE_GAME /\ ev.field # {}
    /\ \E i \in BlockIdx : ~state.blocks[i].enabled /\ state.blocks[i].y > 0

(* C18: a tick respawns at most one block, whatever its dt. *)
C18_OneRespawnPerTick ==
    (ev.kind = "Tick" /\ ev.phase0 = PHASE_GAME) => Cardinality(ev.spawned) <= 1

(* C19: the step from Menu to Game leaves a fully reset game, whatever the
   game before left behind: score 0, velocity STARTING_VELOCITY, direction
   None, selection 0, the player centred, the blocks below STARTING_BLOCKS
   enabled and waiting for respawn, all other blocks disabled and not
   waiting. *)
C19_GameReset ==
    [][(state.phase = PHASE_MENU /\ state'.phase = PHASE_GAME) =>
         /\ state'.player.score = 0
         /\ state'.velocity = STARTING_VELOCITY
         /\ state'.player_direction = DIR_NONE
         /\ state'.selection = 0
         /\ state'.player.x = (display_width \div 2) - (PLAYER_WIDTH \div 2)
         /\ \A i \in BlockIdx :
               IF i < STARTING_BLOCKS
               THEN state'.blocks[i].enabled /\ state'.blocks[i].waiting_for_respawn
               ELSE ~state'.blocks[i].enabled /\ ~state'.blocks[i].waiting_for_respawn]_vars

(* A game was started after one that had brought a block beyond the first
   STARTING_BLOCKS into play. *)
C19_Witness ==
    /\ ev.kind = "Input" /\ ev.phase0 = PHASE_MENU
    /\ state.phase = PHASE_GAME /\ state.player.score = 0
    /\ \E i \in BlockIdx : i >= STARTING_BLOCKS /\ state.blocks[i].y > 0

(* The step is a run of the timer callback (of the button ISR). *)
TimerStep == last_time' # last_time
ButtonStep == button_status' # button_status

(* C20: the queue never holds more than QUEUE_LENGTH packets; a producer
   that runs while it holds QUEUE_LENGTH completes (its statics are
   updated for this reading of the clock) and leaves the queue as it was;
   and every run of a producer leaves the queue unchanged or appends one
   packet, a tick's being the time since the firing before, so that a
   dropped packet is never sent again. *)
C20_DropOnFull ==
    /\ [](Len(packet_queue) <= QUEUE_LENGTH)
    /\ [][((TimerStep \/ ButtonStep) /\ Len(packet_queue) = QUEUE_LENGTH) =>
             /\ packet_queue' = packet_queue
             /\ TimerStep => last_time' = now
             /\ ButtonStep => last_press_time' = now]_vars
    /\ [][TimerStep =>
             \/ packet_queue' = packet_queue
             \/ packet_queue' = Append(packet_queue,
                                       [type |-> PACKET_TICK, data |-> now - last_time])]_vars
    /\ [][ButtonStep =>
             \/ packet_queue' = packet_queue
             \/ /\ Len(packet_queue') = Len(packet_queue) + 1
                /\ SubSeq(packet_queue', 1, Len(packet_queue)) = packet_queue
                /\ packet_queue'[Len(packet_queue')].type = PACKET_INPUT]_vars

(* The game loop has received nothing, the queue is full and holds fewer
   ticks than the timer has fired: a tick was dropped. *)
C20_Witness ==
    /\ ev.kind = "Start"
    /\ Len(packet_queue) = QUEUE_LENGTH
    /\ TimerServed
    /\ Cardinality({k \in 1 .. Len(packet_queue) : packet_queue[k].type = PACKET_TICK})
          * TICK_PERIOD_US < last_time

(* The name ev gives to a packet type. *)
KindOf(type) == IF type = PACKET_TICK THEN "Tick" ELSE "Input"

(* C21: the queue changes only by a producer appending one packet at its
   tail or by the game loop taking the packet at its head, and the game
   loop handles exactly the packet it takes, type and data as enqueued;
   nothing is handled in any other step.  So packets are handled in the
   order of their enqueueing, each once. *)
C21_FifoExactlyOnce ==
    /\ [][packet_queue' # packet_queue =>
             \/ /\ TimerStep \/ ButtonStep
                /\ Len(packet_queue') = Len(packet_queue) + 1
                /\ SubSeq(packet_queue', 1, Len(packet_queue)) = packet_queue
             \/ /\ Drain /\ ~TimerStep /\ ~ButtonStep
                /\ ev'.kind = KindOf(Head(packet_queue).type)
                /\ ev'.data = Head(packet_queue).data]_vars
    /\ [][(state' # state \/ ev' # ev) => Drain]_vars

(* The game loop handled an input while a tick and an input, enqueued
   after it, were waiting in that order. *)
C21_Witness ==
    /\ ev.kind = "Input" /\ ev.data = DIR_LEFT
    /\ Len(packet_queue) >= 2
    /\ packet_queue[1].type = PACKET_TICK
    /\ packet_queue[2] = [type |-> PACKET_INPUT, data |-> DIR_NONE]

(* C22: once an interrupt has run, for as long as the clock is within the
   debounce threshold of it no step enqueues an input packet or changes a
   pin's flag, the time of the last transition or an armed level. *)
C22_BounceIgnored ==
    [][(last_press_time > 0 /\ now - last_press_time < DEBOUNCE_US) =>
         /\ Len(packet_queue') <= Len(packet_queue)
         /\ UNCHANGED <<button_status, last_press_time, intr_type>>]_vars

(* C23: the first interrupt of the right button, which has no accepted
   transition before it, enqueues its packet exactly when at least the
   debounce threshold has elapsed, whatever the left button did. *)
C23_WindowPerPin ==
    [][button_status'[GPIO_RIGHT] # button_status[GPIO_RIGHT] =>
         (now >= DEBOUNCE_US <=>
            packet_queue' = Append(packet_queue,
                                   [type |-> PACKET_INPUT, data |-> DIR_RIGHT]))]_vars

(* C24: the packets of the left button waiting in the queue alternate: no
   two Left packets without a None packet between them, and before anything
   has been received the first of them is a Left. *)
C24_PressReleaseAlternate ==
    /\ \A i, j \in 1..Len(packet_queue) :
          (i < j /\ packet_queue[i].data = DIR_LEFT /\ packet_queue[j].data = DIR_LEFT)
              => \E k \in (i + 1)..(j - 1) : packet_queue[k].data = DIR_NONE
    /\ ev.kind = "Start" =>
          \A i \in 1..Len(packet_queue) :
              packet_queue[i].data = DIR_NONE
                  => \E k \in 1..(i - 1) : packet_queue[k].data = DIR_LEFT

(* C25: the iteration of the game loop that handles an input packet ends
   with a call of vTaskDelay. *)
C25_InputIterationYields ==
    [][InputStep => yields(frame', TRUE)]_vars

(* The blocks a tick moves and does nothing else to: enabled and not
   awaiting respawn when the tick starts. *)
Falling(s) == {i \in BlockIdx : s.blocks[i].enabled /\ ~s.blocks[i].waiting_for_respawn}

(* C26: a Tick of an even number dt of microseconds moves every falling
   block as far as two Ticks of dt/2 at the same velocity would. *)
C26_FrameRateIndependent ==
    [][(TickStep /\ state.phase = PHASE_GAME /\ Head(packet_queue).data % 2 = 0) =>
         \A i \in Falling(state) :
             state'.blocks[i].y - state.blocks[i].y
                 = 2 * calc_velocity(state.velocity, Head(packet_queue).data \div 2)]_vars

(* C27: the distance a Tick of dt microseconds moves a falling block at
   velocity v is the ceiling of v * dt / 1000000; it is not negative, it is
   0 when dt is 0, and at least 1 when v and dt are positive. *)
C27_DisplacementIsCeiling ==
    [][(TickStep /\ state.phase = PHASE_GAME) =>
         LET v  == state.velocity
             dt == Head(packet_queue).data
         IN  \A i \in Falling(state) :
                 LET moved == state'.blocks[i].y - state.blocks[i].y
                 IN  /\ moved = ExactCeil(v, dt)
                     /\ moved >= 0
                     /\ dt = 0 => moved = 0
                     /\ (v > 0 /\ dt > 0) => moved >= 1]_vars

(* C28: a timer firing changes only last_time and the queue, a button
   interrupt only its flags, last_press_time, the armed levels and the
   queue; the game state, the last-spawned record and the frame counter
   change only in a step of the game loop, which takes exactly one packet
   from the queue, handles that packet alone and leaves the timer's and the
   buttons' state as it was. *)
C28_StateOwnedByLoop ==
    [][/\ TimerStep =>
             /\ UNCHANGED <<state, last_spawned, frame, warned, ev>>
             /\ UNCHANGED <<last_press_time, button_status, intr_type>>
       /\ ButtonStep =>
             /\ UNCHANGED <<state, last_spawned, frame, warned, ev>>
             /\ UNCHANGED last_time
       /\ (state' # state \/ last_spawned' # last_spawned \/ frame' # frame) =>
             /\ Drain
             /\ ev'.kind = KindOf(Head(packet_queue).type)
             /\ ev'.data = Head(packet_queue).data
             /\ UNCHANGED <<last_time, last_press_time, button_status, intr_type>>
      ]_vars

(* A game is running, a press of the left button waits in the queue and
   the player is not moving left. *)
C28_Witness ==
    /\ state.phase = PHASE_GAME
    /\ state.player_direction # DIR_LEFT
    /\ button_status[GPIO_LEFT] = 0
    /\ \E i \in 1..Len(packet_queue) :
          packet_queue[i] = [type |-> PACKET_INPUT, data |-> DIR_LEFT]

(* The enabled blocks awaiting respawn. *)
Awaiting(s) == {i \in BlockIdx : s.blocks[i].enabled /\ s.blocks[i].waiting_for_respawn}

(* The greatest member of a non-empty set of numbers. *)
Highest(S) == CHOOSE m \in S : \A n \in S : n <= m

(* C29: on a game Tick the first block awaiting respawn is respawned
   exactly when there is no last-spawned block, or that block is disabled,
   or awaiting respawn, or lower than 1.5 * BLOCK_HEIGHT (its y taken after
   its move in this Tick when it comes before the awaiting block).  Every
   block respawned in the Tick ends it at y = -BLOCK_HEIGHT plus the Tick's
   displacement with an x in [0, display_width - BLOCK_WIDTH), and the last
   of them is the last-spawned block; a block left awaiting keeps its x and
   its flag, and without a respawn the last-spawned record is unchanged. *)
C29_RespawnRule ==
    [][(TickStep /\ state.phase = PHASE_GAME) =>
         LET d  == calc_velocity(state.velocity, Head(packet_queue).data)
             ls == last_spawned
         IN
         /\ Awaiting(state) # {} =>
               LET i0 == CHOOSE i \in Awaiting(state) : \A j \in Awaiting(state) : i <= j
                   lsY == state.blocks[ls].y + (IF ls < i0 THEN d ELSE 0)
               IN  i0 \in ev'.spawned <=>
                       \/ ls = NULL
                       \/ ~state.blocks[ls].enabled
                       \/ state.blocks[ls].waiting_for_respawn
                       \/ 2 * lsY > 3 * BLOCK_HEIGHT
         /\ ev'.spawned \subseteq Awaiting(state)
         /\ \A i \in ev'.spawned :
               /\ state'.blocks[i].y = d - BLOCK_HEIGHT
               /\ state'.blocks[i].x \in 0..(display_width - BLOCK_WIDTH - 1)
               /\ state'.blocks[i].enabled
         /\ \A i \in Awaiting(state) \ ev'.spawned :
               /\ state'.blocks[i].x = state.blocks[i].x
               /\ state'.blocks[i].enabled
               /\ state'.blocks[i].waiting_for_respawn
         /\ last_spawned' = IF ev'.spawned = {} THEN ls ELSE Highest(ev'.spawned)
      ]_vars

(* A Tick has respawned a block, one whose last-spawned predecessor had
   cleared 1.5 * BLOCK_HEIGHT, and has left another block awaiting. *)
C29_Witness ==
    /\ ev.kind = "Tick" /\ ev.phase0 = PHASE_GAME
    /\ ev.spawned # {}
    /\ last_spawned > 0
    /\ \E i \in Awaiting(state) : i \notin ev.passed
    /\ \E j \in BlockIdx : /\ j < last_spawned
                             /\ state.blocks[j].enabled
                             /\ ~state.blocks[j].waiting_for_respawn
                             /\ 2 * state.blocks[j].y > 3 * BLOCK_HEIGHT

(* C30: in every state and for every n from 0 to beyond MAX_BLOCKS,
   enable_blocks(n) applied twice gives what it gives applied once; it
   leaves every enabled block as it is, makes every disabled block below n
   enabled and awaiting respawn and leaves the other disabled blocks
   disabled.  On a game Tick with a score above the threshold the enabled
   blocks afterwards are those enabled before and those below the score's
   block count, and the blocks that were falling have only moved. *)
C30_EnableBlocks ==
    /\ [](\A n \in 0..(MAX_BLOCKS + 2) :
            LET once == enable_blocks(state.blocks, n) IN
            /\ enable_blocks(once, n) = once
            /\ \A i \in BlockIdx :
                  IF state.blocks[i].enabled
                  THEN once[i] = state.blocks[i]
                  ELSE /\ once[i].enabled = (i < n)
                       /\ once[i].waiting_for_respawn = (i < n)
                       /\ once[i].x = state.blocks[i].x
                       /\ once[i].y = state.blocks[i].y)
    /\ [][(TickStep /\ state.phase = PHASE_GAME /\ state.player.score > SCORE_THRESHOLD) =>
            LET n == ((state.player.score - SCORE_THRESHOLD) \div BLOCK_SCORE_STEP)
                         + STARTING_BLOCKS
                d == calc_velocity(state.velocity, Head(packet_queue).data)
            IN  /\ Enabled(state') = Enabled(state) \cup {i \in BlockIdx : i < n}
                /\ \A i \in Enabled(state') \ Enabled(state) :
                      /\ state'.blocks[i].waiting_for_respawn
                      /\ state'.blocks[i].x = state.blocks[i].x
                      /\ state'.blocks[i].y = state.blocks[i].y
                /\ \A i \in Falling(state) :
                      /\ state'.blocks[i].x = state.blocks[i].x
                      /\ state'.blocks[i].y = state.blocks[i].y + d]_vars

(* A Tick of a game has just enabled a block beyond the starting ones
   while other blocks are falling, and disabled blocks remain. *)
C30_Witness ==
    /\ ev.kind = "Tick" /\ ev.phase0 = PHASE_GAME
    /\ ev.score0 > SCORE_THRESHOLD
    /\ Falling(state) # {}
    /\ Enabled(state) # BlockIdx
    /\ \E i \in Enabled(state) :
          /\ i >= STARTING_BLOCKS
          /\ state.blocks[i].waiting_for_respawn
          /\ state.blocks[i].y = 0
          /\ \A j \in Enabled(state) : j <= i

(* C31: a Tick handled in Menu, or in Death before the deadline, leaves
   the whole game state and the last-spawned record as they were. *)
C31_IdleTickChangesNothing ==
    [][(/\ TickStep
        /\ \/ state.phase = PHASE_MENU
           \/ state.phase = PHASE_DEATH /\ now < state.auto_advance_time) =>
         /\ state' = state
         /\ last_spawned' = last_spawned]_vars

(* A Tick has just been handled on the death screen, which shows a score
   above zero over blocks that were falling when the player was hit. *)
C31_Witness ==
    /\ ev.kind = "Tick" /\ ev.phase0 = PHASE_DEATH
    /\ state.phase = PHASE_DEATH
    /\ state.player.score > 0
    /\ Falling(state) # {}

(* C32: in every state each pin is armed for the high level (release)
   exactly when its flag says the button is down, which is flag 0, and for
   the low level (press) otherwise. *)
C32_ArmedOpposite ==
    \A p \in Pins :
        intr_type[p] = IF button_status[p] = 0 THEN HIGH_LEVEL ELSE LOW_LEVEL

(* The left button's only interrupt so far was rejected by the debounce
   test: nothing was enqueued, and the pin is armed for the release. *)
C32_Witness ==
    /\ button_status[GPIO_LEFT] = 0
    /\ intr_type[GPIO_LEFT] = HIGH_LEVEL
    /\ last_press_time > 0
    /\ packet_queue = <<>>
    /\ ev.kind = "Start"

(* The player's rectangle and a block's share a point, edges included. *)
Overlap(p, b) ==
    /\ (p.x .. (p.x + PLAYER_WIDTH)) \cap (b.x .. (b.x + BLOCK_WIDTH)) # {}
    /\ (p.y .. (p.y + PLAYER_HEIGHT)) \cap (b.y .. (b.y + BLOCK_HEIGHT)) # {}

(* C33: for the player and every block of every state,
   check_player_collision says whether the two closed rectangles share a
   point; and a game Tick ends in Death exactly when a block that is enabled
   and not awaiting respawn at the collision check overlaps the player. *)
C33_CollisionTest ==
    /\ [](\A i \in BlockIdx :
            check_player_collision(state.player, state.blocks[i])
                <=> Overlap(state.player, state.blocks[i]))
    /\ [][(TickStep /\ state.phase = PHASE_GAME) =>
            (state'.phase = PHASE_DEATH
                <=> \E i \in ev'.field : Overlap(state'.player, state'.blocks[i]))]_vars

(* A game goes on after a Tick although a block awaiting respawn overlaps
   the player. *)
C33_Witness ==
    /\ ev.kind = "Tick" /\ ev.phase0 = PHASE_GAME
    /\ state.phase = PHASE_GAME
    /\ \E i \in Awaiting(state) : Overlap(state.player, state.blocks[i])

(* How far below the top of the display a block gets while it awaits
   respawn in the long game (an awaiting block keeps moving down). *)
MaxWaitDepth == 400

(* C34: an enabled block that awaits respawn in a running game is
   respawned, unless the game ends first or the long game reaches MaxScore,
   where its clock stops; and it is respawned before it has moved down to
   MaxWaitDepth, whatever the number of enabled blocks. *)
C34_NoStarvation ==
    /\ \A i \in BlockIdx :
          (state.phase = PHASE_GAME /\ i \in Awaiting(state))
              ~> \/ i \notin Awaiting(state)
                 \/ state.phase # PHASE_GAME
                 \/ state.player.score >= MaxScore
    /\ [](state.phase = PHASE_GAME =>
            \A i \in Awaiting(state) : state.blocks[i].y <= MaxWaitDepth)

(* All the blocks are enabled in a running game; one has just been
   respawned by a Tick that left others awaiting, one of them below the
   display. *)
C34_Witness ==
    /\ ev.kind = "Tick" /\ ev.phase0 = PHASE_GAME
    /\ state.phase = PHASE_GAME
    /\ Enabled(state) = BlockIdx
    /\ ev.spawned # {}
    /\ \E i \in Awaiting(state) : state.blocks[i].y > 2 * display_height

(* C35: after every game Tick any two falling blocks are more than
   BLOCK_HEIGHT apart vertically. *)
C35_BlocksApart ==
    (ev.kind = "Tick" /\ ev.phase0 = PHASE_GAME) =>
        \A i, j \in Falling(state) :
            i # j => \/ state.blocks[i].y - state.blocks[j].y > BLOCK_HEIGHT
                     \/ state.blocks[j].y - state.blocks[i].y > BLOCK_HEIGHT

(* The sum of the dt of the ticks waiting in a queue. *)
RECURSIVE SumTicks(_)
SumTicks(q) ==
    IF q = <<>> THEN 0
    ELSE (IF Head(q).type = PACKET_TICK THEN Head(q).data ELSE 0) + SumTicks(Tail(q))

(* C36: with a timer that fires once every period, every firing sets
   last_time to the clock, every tick waiting in the queue and every tick
   the game loop handles carries one period, the periods handled (one per
   frame) and waiting never add up to more than the time of the last
   firing, and add up to less after a firing that found the queue full. *)
C36_DroppedTimeIsLost ==
    /\ [][TimerStep => last_time' = now]_vars
    /\ [](\A k \in 1..Len(packet_queue) :
            packet_queue[k].type = PACKET_TICK => packet_queue[k].data = TICK_PERIOD_US)
    /\ [][TickStep => ev'.data = TICK_PERIOD_US /\ frame' = frame + 1]_vars
    /\ [](frame * TICK_PERIOD_US + SumTicks(packet_queue) <= last_time)
    /\ [][(TimerStep /\ Len(packet_queue) = QUEUE_LENGTH) =>
            frame' * TICK_PERIOD_US + SumTicks(packet_queue') < last_time']_vars

(* A tick was dropped, and a later tick has been sent and handled: the
   ticks handled and waiting account for less than the time of the last
   firing. *)
C36_Witness ==
    /\ ev.kind = "Tick" /\ ev.data = TICK_PERIOD_US
    /\ frame * TICK_PERIOD_US + SumTicks(packet_queue) < last_time
    /\ Len(packet_queue) >= 1
    /\ packet_queue[Len(packet_queue)] = [type |-> PACKET_TICK, data |-> TICK_PERIOD_US]
    /\ TimerServed

(* C37: in every state selection is 0 or 1, and it is 0 in Game and in
   Death. *)
C37_SelectionRange ==
    /\ state.selection \in {0, 1}
    /\ state.phase \in {PHASE_GAME, PHASE_DEATH} => state.selection = 0

(* Back in the menu after a game that was lost, the first press has been
   handled: selection is 1. *)
C37_Witness ==
    /\ state.phase = PHASE_MENU
    /\ state.selection = 1
    /\ state.velocity = STARTING_VELOCITY
    /\ Enabled(state) # {}
    /\ ev.kind = "Input" /\ ev.phase0 = PHASE_MENU

(* C38: every falling block has 0 <= x < display_width - BLOCK_WIDTH, so
   that it lies inside the display from side to side, and no step changes
   the x of a falling block or moves it up. *)
C38_BlocksFallStraight ==
    /\ [](\A i \in Falling(state) :
            /\ 0 <= state.blocks[i].x
            /\ state.blocks[i].x < display_width - BLOCK_WIDTH
            /\ state.blocks[i].x + BLOCK_WIDTH <= display_width)
    /\ [][\A i \in Falling(state) :
            /\ state'.blocks[i].x = state.blocks[i].x
            /\ state'.blocks[i].y >= state.blocks[i].y]_vars

(* A Tick has moved a block that falls along the right edge of the
   display from one row to a lower one, and the game goes on. *)
C38_Witness ==
    /\ ev.kind = "Tick" /\ ev.phase0 = PHASE_GAME
    /\ state.phase = PHASE_GAME
    /\ \E i \in Falling(state) \ ev.spawned :
          /\ state.blocks[i].x = display_width - BLOCK_WIDTH - 1
          /\ state.blocks[i].y > 0

====
